---------------------------- MODULE Spec2Model ----------------------------
(***************************************************************************)
(* Model of the accept-encoding crate (src/src/lib.rs).                    *)
(*                                                                         *)
(* A header value is a sequence of one-character strings, so that the      *)
(* crate's split(','), trim, splitn(2, ";q="), Encoding::parse and         *)
(* parse::<f32> are computed on the text and not assumed.  A HeaderMap is  *)
(* reduced to what get_all(ACCEPT_ENCODING) yields: the sequence of the    *)
(* header's occurrences, in insertion order.                               *)
(*                                                                         *)
(* An f32 is a record: a finite value counted in thousandths, an infinity  *)
(* or NaN.  Every q-value of the model has at most three decimals, so the  *)
(* thousandths identify the f32 it parses to.                              *)
(***************************************************************************)
EXTENDS Integers, Sequences, FiniteSets, TLC

VARIABLES
    headers,      \* the occurrences of Accept-Encoding in the HeaderMap
    encResult,    \* what encodings(&headers) returned, or NotCalled
    parseResult   \* what parse(&headers) returned, or NotCalled

vars == <<headers, encResult, parseResult>>

\* The most comma-separated segments the header map holds, all occurrences
\* together.
MaxSegments == 2

---------------------------------------------------------------------------
(* Result<T> and Option<T>                                                 *)

Ok(v) == [tag |-> "Ok", val |-> v]

Err(k) == [tag |-> "Err", kind |-> k]

None == [tag |-> "None"]

NotCalled == [tag |-> "NotCalled"]

IsOk(r) == r.tag = "Ok"

IsErr(r) == r.tag = "Err"

---------------------------------------------------------------------------
(* Text                                                                    *)

S_gzip == <<"g", "z", "i", "p">>

S_deflate == <<"d", "e", "f", "l", "a", "t", "e">>

S_br == <<"b", "r">>

S_zstd == <<"z", "s", "t", "d">>

S_identity == <<"i", "d", "e", "n", "t", "i", "t", "y">>

S_star == <<"*">>

S_qsep == <<";", "q", "=">>

\* A byte that is legal in a HeaderValue (obs-text, 0x80..0xFF) and is not
\* visible ASCII.
ObsByte == "0xE9"

\* HeaderValue::to_str accepts visible ASCII and tab only.
IsVisibleAscii(c) == c # ObsByte

\* char::is_whitespace, on the characters of the model.
IsWhitespace(c) == c \in {" ", "\t"}

\* The index of the first c in s, 0 when there is none.
RECURSIVE FindChar(_, _, _)
FindChar(s, c, i) ==
    IF i > Len(s) THEN 0
    ELSE IF s[i] = c THEN i
    ELSE FindChar(s, c, i + 1)

\* The index where the first occurrence of pat starts in s, 0 when none.
RECURSIVE FindSub(_, _, _)
FindSub(s, pat, i) ==
    IF i + Len(pat) - 1 > Len(s) THEN 0
    ELSE IF SubSeq(s, i, i + Len(pat) - 1) = pat THEN i
    ELSE FindSub(s, pat, i + 1)

\* str::split(','): the pieces between the commas, empty pieces included.
RECURSIVE Split(_)
Split(s) ==
    LET i == FindChar(s, ",", 1)
    IN  IF i = 0 THEN <<s>>
        ELSE <<SubSeq(s, 1, i - 1)>> \o Split(SubSeq(s, i + 1, Len(s)))

RECURSIVE TrimStart(_)
TrimStart(s) ==
    IF s # <<>> /\ IsWhitespace(Head(s)) THEN TrimStart(Tail(s)) ELSE s

RECURSIVE TrimEnd(_)
TrimEnd(s) ==
    IF s # <<>> /\ IsWhitespace(s[Len(s)])
    THEN TrimEnd(SubSeq(s, 1, Len(s) - 1))
    ELSE s

\* str::trim
Trim(s) == TrimEnd(TrimStart(s))

\* str::splitn(2, ";q="): one piece, or the text before the first ";q=" and
\* all the text after it.
Splitn2(s) ==
    LET i == FindSub(s, S_qsep, 1)
    IN  IF i = 0 THEN <<s>>
        ELSE <<SubSeq(s, 1, i - 1), SubSeq(s, i + Len(S_qsep), Len(s))>>

RECURSIVE Flatten(_)
Flatten(ss) == IF ss = <<>> THEN <<>> ELSE Head(ss) \o Flatten(Tail(ss))

---------------------------------------------------------------------------
(* f32                                                                     *)

Fin(k) == [kind |-> "fin", v |-> k]

Inf(sign) == [kind |-> "inf", v |-> sign]

NaN == [kind |-> "nan", v |-> 0]

\* 1.0f32 and 0.0, in thousandths
One == Fin(1000)

Zero == Fin(0)

F32Class(a) == IF a.kind = "inf" THEN a.v ELSE 0

\* a > b on f32: false when either side is NaN.
F32Gt(a, b) ==
    /\ a.kind # "nan"
    /\ b.kind # "nan"
    /\ \/ F32Class(a) > F32Class(b)
       \/ /\ F32Class(a) = F32Class(b)
          /\ a.kind = "fin"
          /\ b.kind = "fin"
          /\ a.v > b.v

IsDigit(c) == c \in {"0", "1", "2", "3", "4", "5", "6", "7", "8", "9"}

DigitVal(c) ==
    CASE c = "0" -> 0 [] c = "1" -> 1 [] c = "2" -> 2 [] c = "3" -> 3
      [] c = "4" -> 4 [] c = "5" -> 5 [] c = "6" -> 6 [] c = "7" -> 7
      [] c = "8" -> 8 [] c = "9" -> 9

RECURSIVE DecValue(_)
DecValue(ds) ==
    IF ds = <<>> THEN 0
    ELSE 10 * DecValue(SubSeq(ds, 1, Len(ds) - 1)) + DigitVal(ds[Len(ds)])

\* The first three decimals of a fraction, as thousandths.
Thousandths(ds) ==
    LET d(i) == IF i <= Len(ds) THEN DigitVal(ds[i]) ELSE 0
    IN  100 * d(1) + 10 * d(2) + d(3)

AllDigits(s) == \A i \in 1..Len(s) : IsDigit(s[i])

\* str::parse::<f32>: an optional sign, then "NaN", "inf", "infinity", or
\* digits with an optional point and at least one digit.  No leading or
\* trailing text is tolerated, whitespace included.  (Exponents, which no
\* q-value of the model uses, are not covered.)
ParseF32(s) ==
    LET signed == s # <<>> /\ Head(s) \in {"+", "-"}
        sign == IF signed /\ Head(s) = "-" THEN -1 ELSE 1
        body == IF signed THEN Tail(s) ELSE s
        dot == FindChar(body, ".", 1)
        ip == IF dot = 0 THEN body ELSE SubSeq(body, 1, dot - 1)
        fp == IF dot = 0 THEN <<>> ELSE SubSeq(body, dot + 1, Len(body))
    IN  IF body \in {<<"N", "a", "N">>, <<"n", "a", "n">>} THEN Ok(NaN)
        ELSE IF body \in {<<"i", "n", "f">>,
                          <<"i", "n", "f", "i", "n", "i", "t", "y">>}
        THEN Ok(Inf(sign))
        ELSE IF AllDigits(ip) /\ AllDigits(fp) /\ Len(ip) + Len(fp) > 0
        THEN Ok(Fin(sign * (1000 * DecValue(ip) + Thousandths(fp))))
        ELSE Err("ParseFloatError")

---------------------------------------------------------------------------
(* enum Encoding                                                           *)

Concrete == {"Gzip", "Deflate", "Brotli", "Zstd", "Identity"}

Encoding == Concrete \cup {"Any"}

\* Encoding::parse with the "*" arm missing.
EncodingParseNoStar(s) ==
    CASE s = S_gzip -> Ok("Gzip")
      [] s = S_deflate -> Ok("Deflate")
      [] s = S_br -> Ok("Brotli")
      [] s = S_zstd -> Ok("Zstd")
      [] s = S_identity -> Ok("Identity")
      [] OTHER -> Err("UnknownEncoding")

\* Encoding::parse
EncodingParse(s) ==
    CASE s = S_gzip -> Ok("Gzip")
      [] s = S_deflate -> Ok("Deflate")
      [] s = S_br -> Ok("Brotli")
      [] s = S_zstd -> Ok("Zstd")
      [] s = S_identity -> Ok("Identity")
      [] s = S_star -> Ok("Any")
      [] OTHER -> Err("UnknownEncoding")

\* to_header_value naming Brotli by its long name.
to_header_value_brotli(e) ==
    CASE e = "Gzip" -> S_gzip
      [] e = "Deflate" -> S_deflate
      [] e = "Brotli" -> <<"b", "r", "o", "t", "l", "i">>
      [] e = "Zstd" -> S_zstd
      [] e = "Identity" -> S_identity
      [] e = "Any" -> S_star

\* Encoding::to_header_value
to_header_value(e) ==
    CASE e = "Gzip" -> S_gzip
      [] e = "Deflate" -> S_deflate
      [] e = "Brotli" -> S_br
      [] e = "Zstd" -> S_zstd
      [] e = "Identity" -> S_identity
      [] e = "Any" -> S_star

---------------------------------------------------------------------------
(* encodings()                                                             *)

\* HeaderValue::to_str with the error mapped to InvalidEncoding
ToStr(hval) ==
    IF \A i \in 1..Len(hval) : IsVisibleAscii(hval[i])
    THEN Ok(hval)
    ELSE Err("InvalidEncoding")

\* collect::<Result<Vec<_>>>: the first error, or all the values.
RECURSIVE FirstErr(_)
FirstErr(rs) ==
    IF rs = <<>> THEN None
    ELSE IF IsErr(Head(rs)) THEN Head(rs)
    ELSE FirstErr(Tail(rs))

Collect(rs) ==
    IF FirstErr(rs) # None THEN FirstErr(rs)
    ELSE Ok([i \in 1..Len(rs) |-> rs[i].val])

\* s.split(',').map(str::trim)
SplitTrim(s) == [i \in 1..Len(Split(s)) |-> Trim(Split(s)[i])]

\* flat_map over the occurrences taken last to first.
SegmentsOfReversed(strs) ==
    Flatten([i \in 1..Len(strs) |-> SplitTrim(strs[Len(strs) + 1 - i])])

\* .flat_map(|s| s.split(',').map(str::trim))
SegmentsOf(strs) == Flatten([i \in 1..Len(strs) |-> SplitTrim(strs[i])])

\* A range check that lets every value through.
OverOneNever(qval) == FALSE

\* qval > 1.0
OverOne(qval) == F32Gt(qval, One)

\* The q-value of a segment split at ";q=": the parsed number, or 1.0 when
\* the segment has no ";q=".
Qval(v) ==
    IF Len(v) > 1
    THEN LET f == ParseF32(v[2])
         IN  IF IsErr(f) THEN Err("InvalidEncoding")
             ELSE IF OverOne(f.val) THEN Err("InvalidEncoding")
             ELSE Ok(f.val)
    ELSE Ok(One)

\* The closure with an unknown token reported instead of skipped.
DirectiveStrict(seg) ==
    LET v == Splitn2(seg)
        encoding == EncodingParse(v[1])
    IN  IF IsErr(encoding) THEN encoding
        ELSE IF IsErr(Qval(v)) THEN Qval(v)
        ELSE Ok([encoding |-> encoding.val, qval |-> Qval(v).val])

\* The filter_map closure: None for a segment to skip, else Some(result),
\* written here as the result itself.
Directive(seg) ==
    LET v == Splitn2(seg)
        encoding == EncodingParse(v[1])
    IN  IF IsErr(encoding) THEN None
        ELSE IF IsErr(Qval(v)) THEN Qval(v)
        ELSE Ok([encoding |-> encoding.val, qval |-> Qval(v).val])

IsSome(o) == o # None

\* The directives of the segments, in order, lazily in the source and as a
\* sequence here.
Directives(strs) ==
    SelectSeq([i \in 1..Len(SegmentsOf(strs)) |->
                  Directive(SegmentsOf(strs)[i])], IsSome)

\* pub fn encodings
encodings(hs) ==
    LET strs == Collect([i \in 1..Len(hs) |-> ToStr(hs[i])])
    IN  IF IsErr(strs) THEN strs
        ELSE Collect(Directives(strs.val))

---------------------------------------------------------------------------
(* parse()                                                                 *)

\* A tolerance test that asks for 1.0 exactly.
Near1Exact(qval) == qval = One

\* (qval - 1.0f32).abs() < 0.01.  Both sides are f32: 0.01f32 is
\* 0.009999999776 and 1.0 - 0.99f32 is 0.009999990463, so 0.99 passes the
\* test and 0.989 (0.010999977589) does not; likewise 1.01 passes and 1.011
\* does not.  On the thousandths the test is |qval - 1.0| <= 0.010.
Near1(qval) ==
    /\ qval.kind = "fin"
    /\ qval.v - 1000 <= 10
    /\ 1000 - qval.v <= 10

\* A replacement test that also lets an equal q-value replace the best.
BetterOrEqual(qval, max_qval) == F32Gt(qval, max_qval) \/ qval = max_qval

\* qval > max_qval
Better(qval, max_qval) == F32Gt(qval, max_qval)

\* A fold that starts from Identity.
InitialPreferredIdentity == "Identity"

\* let mut preferred_encoding = Encoding::Any;
InitialPreferred == "Any"

\* The for loop of parse over the items from position i on.
RECURSIVE ParseLoop(_, _, _, _)
ParseLoop(list, i, preferred_encoding, max_qval) ==
    IF i > Len(list) THEN preferred_encoding
    ELSE IF Near1(list[i].qval) THEN list[i].encoding
    ELSE IF Better(list[i].qval, max_qval)
    THEN ParseLoop(list, i + 1, list[i].encoding, list[i].qval)
    ELSE ParseLoop(list, i + 1, preferred_encoding, max_qval)

\* The loop run on the directives as they are produced, so that a break ends
\* the production too: an error behind the break is never seen.
RECURSIVE ParseLoopLazy(_, _, _, _)
ParseLoopLazy(items, i, preferred_encoding, max_qval) ==
    IF i > Len(items) THEN Ok(preferred_encoding)
    ELSE IF IsErr(items[i]) THEN items[i]
    ELSE IF Near1(items[i].val.qval) THEN Ok(items[i].val.encoding)
    ELSE IF Better(items[i].val.qval, max_qval)
    THEN ParseLoopLazy(items, i + 1, items[i].val.encoding, items[i].val.qval)
    ELSE ParseLoopLazy(items, i + 1, preferred_encoding, max_qval)

parse_lazy(hs) ==
    LET strs == Collect([i \in 1..Len(hs) |-> ToStr(hs[i])])
    IN  IF IsErr(strs) THEN strs
        ELSE ParseLoopLazy(Directives(strs.val), 1, InitialPreferred, Zero)

\* pub fn parse
parse(hs) ==
    LET r == encodings(hs)
    IN  IF IsErr(r) THEN r
        ELSE Ok(ParseLoop(r.val, 1, InitialPreferred, Zero))

---------------------------------------------------------------------------
(* The header values a caller supplies                                     *)

S_unknown == <<"u", "n", "k", "n", "o", "w", "n">>

S_GZIP == <<"G", "Z", "I", "P">>

Q_1_0 == <<"1", ".", "0">>

Q_0_99 == <<"0", ".", "9", "9">>

Q_0_75 == <<"0", ".", "7", "5">>

Q_0_5 == <<"0", ".", "5">>

Q_0 == <<"0">>

Q_neg1 == <<"-", "1">>

Q_1_5 == <<"1", ".", "5">>

Q_abc == <<"a", "b", "c">>

Q_NaN == <<"N", "a", "N">>

WithQ(token, q) == token \o S_qsep \o q

\* The comma-separated segments the header values are made of.
Segments ==
    {S_gzip, S_br, S_star, S_unknown, S_GZIP, <<>>, <<ObsByte>>}
    \cup {WithQ(S_gzip, q) : q \in {Q_1_0, Q_0_99, Q_0_75, Q_0_5, Q_0,
                                    Q_neg1, Q_1_5, Q_abc, Q_NaN}}
    \cup {WithQ(S_br, Q_0_5), WithQ(S_star, Q_0_5), WithQ(S_unknown, Q_abc)}
    \cup {S_gzip \o <<" ">> \o S_qsep \o Q_0_5}

\* The segments written as one header value: "a, b, c".
RECURSIVE JoinSegments(_)
JoinSegments(segs) ==
    IF Len(segs) = 1 THEN segs[1]
    ELSE segs[1] \o <<",", " ">> \o JoinSegments(Tail(segs))

\* The header values of at most n segments.
HeaderValues(n) ==
    {JoinSegments(segs) : segs \in UNION {[1..k -> Segments] : k \in 1..n}}

RECURSIVE SegmentCount(_)
SegmentCount(hs) ==
    IF hs = <<>> THEN 0 ELSE Len(Split(Head(hs))) + SegmentCount(Tail(hs))

---------------------------------------------------------------------------
(* The operations                                                          *)

Init ==
    /\ headers = <<>>
    /\ encResult = NotCalled
    /\ parseResult = NotCalled

\* HeaderMap::new(): a fresh map for the next request.
New ==
    /\ encResult # NotCalled \/ parseResult # NotCalled
    /\ headers' = <<>>
    /\ encResult' = NotCalled
    /\ parseResult' = NotCalled

\* headers.append(ACCEPT_ENCODING, value): one more occurrence.
AppendHeader(value) ==
    /\ encResult = NotCalled
    /\ parseResult = NotCalled
    /\ headers' = Append(headers, value)
    /\ UNCHANGED <<encResult, parseResult>>

\* headers.insert(ACCEPT_ENCODING, e.to_header_value()): the occurrence
\* replaces the ones the map held.
InsertEncoding(e) ==
    /\ encResult = NotCalled
    /\ parseResult = NotCalled
    /\ MaxSegments >= 1
    /\ headers' = <<to_header_value(e)>>
    /\ UNCHANGED <<encResult, parseResult>>

CallEncodings ==
    /\ encResult = NotCalled
    /\ encResult' = encodings(headers)
    /\ UNCHANGED <<headers, parseResult>>

CallParse ==
    /\ parseResult = NotCalled
    /\ parseResult' = parse(headers)
    /\ UNCHANGED <<headers, encResult>>

Next ==
    \/ New
    \/ \E value \in HeaderValues(MaxSegments - SegmentCount(headers)) :
           AppendHeader(value)
    \/ \E e \in Encoding : InsertEncoding(e)
    \/ CallEncodings
    \/ CallParse

Spec == Init /\ [][Next]_vars

---------------------------------------------------------------------------
(* What the properties speak of: the segments of the header as written     *)

\* Occurrence by occurrence in the order supplied, left to right in each.
AllSegments == Flatten([i \in 1..Len(headers) |-> SplitTrim(headers[i])])

Token(seg) == Splitn2(seg)[1]

HasQ(seg) == Len(Splitn2(seg)) > 1

QText(seg) == Splitn2(seg)[2]

RecognizedTokens == {S_gzip, S_deflate, S_br, S_zstd, S_identity, S_star}

ConcreteTokens == {S_gzip, S_deflate, S_br, S_zstd, S_identity}

IsRecognized(seg) == Token(seg) \in RecognizedTokens

RecognizedSegments == SelectSeq(AllSegments, IsRecognized)

\* The encoding each recognized token names.
EncodingOfToken(tok) ==
    CASE tok = S_gzip -> "Gzip"
      [] tok = S_deflate -> "Deflate"
      [] tok = S_br -> "Brotli"
      [] tok = S_zstd -> "Zstd"
      [] tok = S_identity -> "Identity"
      [] tok = S_star -> "Any"

\* The quality a segment states, for a segment whose q-value is a number.
QualityOf(seg) == IF HasQ(seg) THEN ParseF32(QText(seg)).val ELSE One

\* The q-value of the segment is no number, or is a number above 1.0.
BadQ(seg) ==
    /\ HasQ(seg)
    /\ \/ IsErr(ParseF32(QText(seg)))
       \/ F32Gt(ParseF32(QText(seg)).val, One)

Min(S) == CHOOSE x \in S : \A y \in S : x <= y

\* Within 0.01 of 1.0.
WithinTolerance(q) == q.kind = "fin" /\ q.v >= 990 /\ q.v <= 1010

NearOnes(qs) == {i \in 1..Len(qs) : WithinTolerance(qs[i])}

Positives(qs) == {i \in 1..Len(qs) : F32Gt(qs[i], Zero)}

\* The positions of the highest quality among the positive ones.
Tops(qs) ==
    {i \in Positives(qs) : \A j \in 1..Len(qs) : ~F32Gt(qs[j], qs[i])}

\* The position of the directive the fold selects, 0 when it selects none.
Winner(qs) ==
    IF NearOnes(qs) # {} THEN Min(NearOnes(qs))
    ELSE IF Positives(qs) # {} THEN Min(Tops(qs))
    ELSE 0

Qualities(list) == [i \in 1..Len(list) |-> list[i].qval]

BothCalled == encResult # NotCalled /\ parseResult # NotCalled

TextOk == \A i \in 1..Len(headers) : IsOk(ToStr(headers[i]))

---------------------------------------------------------------------------
(* Properties                                                              *)

\* C1: when encodings() succeeds, parse() returns the encoding of the first
\* directive whose quality is within 0.01 of 1.0, whatever comes before it
\* with a lower quality or after it; and when no recognized segment has a
\* q-value, it returns the first recognized encoding listed.
C1_FirstNearOneWins ==
    (IsOk(encResult) /\ parseResult # NotCalled) =>
        LET list == encResult.val
            near == NearOnes(Qualities(list))
        IN  /\ near # {} => parseResult = Ok(list[Min(near)].encoding)
            /\ ( /\ RecognizedSegments # <<>>
                 /\ \A i \in 1..Len(RecognizedSegments) :
                        ~HasQ(RecognizedSegments[i]) )
               => parseResult =
                      Ok(EncodingOfToken(Token(RecognizedSegments[1])))

\* "br;q=0.5, gzip;q=0.99": the second directive is within tolerance and is
\* selected over the first.
C1_Witness ==
    /\ IsOk(encResult)
    /\ Len(encResult.val) = 2
    /\ encResult.val[1] = [encoding |-> "Brotli", qval |-> Fin(500)]
    /\ encResult.val[2] = [encoding |-> "Gzip", qval |-> Fin(990)]
    /\ parseResult = Ok("Gzip")

\* C2: every quality in a list encodings() returns lies in [0.0, 1.0].
C2_QualityInRange ==
    IsOk(encResult) =>
        \A i \in 1..Len(encResult.val) :
            LET q == encResult.val[i].qval
            IN  q.kind = "fin" /\ q.v >= 0 /\ q.v <= 1000

\* C3, as stated: a segment whose q-value is no number or is above 1.0 makes
\* encodings() and parse() return InvalidEncoding, whatever its token.
C3_AnyTokenBadQFails ==
    (\E i \in 1..Len(AllSegments) : BadQ(AllSegments[i])) =>
        /\ encResult \in {NotCalled, Err("InvalidEncoding")}
        /\ parseResult \in {NotCalled, Err("InvalidEncoding")}

\* C3, amended: a segment with a recognized token whose q-value is no number
\* or is above 1.0 makes encodings() and parse() return InvalidEncoding,
\* whatever the other segments are.
C3_RecognizedBadQFails ==
    (\E i \in 1..Len(RecognizedSegments) : BadQ(RecognizedSegments[i])) =>
        /\ encResult \in {NotCalled, Err("InvalidEncoding")}
        /\ parseResult \in {NotCalled, Err("InvalidEncoding")}

\* "gzip, gzip;q=1.5": both calls made, both failed.
C3_Witness ==
    /\ headers = <<JoinSegments(<<S_gzip, WithQ(S_gzip, Q_1_5)>>)>>
    /\ encResult = Err("InvalidEncoding")
    /\ parseResult = Err("InvalidEncoding")

\* The header with the segments of unrecognized token taken out.
RECURSIVE JoinComma(_)
JoinComma(segs) ==
    IF segs = <<>> THEN <<>>
    ELSE IF Len(segs) = 1 THEN segs[1]
    ELSE segs[1] \o <<",">> \o JoinComma(Tail(segs))

WithoutUnknown(hs) ==
    [i \in 1..Len(hs) |->
        JoinComma(SelectSeq(SplitTrim(hs[i]), IsRecognized))]

UnknownSegmentsIgnored ==
    /\ encResult # NotCalled => encResult = encodings(WithoutUnknown(headers))
    /\ parseResult # NotCalled => parseResult = parse(WithoutUnknown(headers))
    /\ IsOk(encResult) => Len(encResult.val) = Len(RecognizedSegments)

NeverUnknownEncoding ==
    /\ encResult # Err("UnknownEncoding")
    /\ parseResult # Err("UnknownEncoding")

\* C4, as stated: a segment of unrecognized token adds no entry and never
\* makes encodings() or parse() fail; the results are those of the header
\* without it, and never UnknownEncoding.
C4_UnknownNeverFails == NeverUnknownEncoding /\ UnknownSegmentsIgnored

\* C4, amended: the same, for header values that are visible ASCII text.
C4_UnknownIgnoredInText ==
    NeverUnknownEncoding /\ (TextOk => UnknownSegmentsIgnored)

\* "unknown;q=abc, gzip": the unknown segment, bad q-value included, is
\* skipped and gzip is returned.
C4_Witness ==
    /\ headers = <<JoinSegments(<<WithQ(S_unknown, Q_abc), S_gzip>>)>>
    /\ encResult = Ok(<<[encoding |-> "Gzip", qval |-> One]>>)
    /\ parseResult = Ok("Gzip")

\* C5: on success encodings() returns one pair per recognized segment, in
\* the order of the occurrences and of the segments in each, unsorted and
\* unmerged.
C5_EncounterOrder ==
    IsOk(encResult) =>
        /\ Len(encResult.val) = Len(RecognizedSegments)
        /\ \A i \in 1..Len(RecognizedSegments) :
               encResult.val[i] =
                   [encoding |-> EncodingOfToken(Token(RecognizedSegments[i])),
                    qval |-> QualityOf(RecognizedSegments[i])]

\* Two occurrences, "gzip;q=0.5" then "gzip;q=0.75": the same encoding twice,
\* the lower quality first.
C5_Witness ==
    /\ headers = <<WithQ(S_gzip, Q_0_5), WithQ(S_gzip, Q_0_75)>>
    /\ encResult = Ok(<<[encoding |-> "Gzip", qval |-> Fin(500)],
                        [encoding |-> "Gzip", qval |-> Fin(750)]>>)

\* C6: with no occurrence of the header, parse() returns Any and encodings()
\* the empty list; neither fails.
C6_AbsentHeader ==
    headers = <<>> =>
        /\ encResult \in {NotCalled, Ok(<<>>)}
        /\ parseResult \in {NotCalled, Ok("Any")}

C6_Witness ==
    /\ headers = <<>>
    /\ encResult = Ok(<<>>)
    /\ parseResult = Ok("Any")

\* C7: when the directive the fold selects is the wildcard, parse() returns
\* Any and no concrete encoding.
C7_WildcardWinsAny ==
    IsOk(parseResult) =>
        LET w == Winner([i \in 1..Len(RecognizedSegments) |->
                            QualityOf(RecognizedSegments[i])])
        IN  (w # 0 /\ Token(RecognizedSegments[w]) = S_star)
                => parseResult = Ok("Any")

\* "gzip;q=0.5, *": the wildcard wins over a concrete encoding of positive
\* quality.
C7_Witness ==
    /\ headers = <<JoinSegments(<<WithQ(S_gzip, Q_0_5), S_star>>)>>
    /\ parseResult = Ok("Any")

\* C8: the token of every concrete encoding is one of gzip, deflate, br,
\* zstd, identity; Encoding::parse of it gives the encoding back, and so
\* does parse() of a header made of that token alone.
C8_RoundTrip ==
    \A e \in Concrete :
        /\ to_header_value(e) \in ConcreteTokens
        /\ EncodingParse(to_header_value(e)) = Ok(e)
        /\ (headers = <<to_header_value(e)>> /\ parseResult # NotCalled)
               => parseResult = Ok(e)

C8_Witness ==
    /\ headers = <<to_header_value("Zstd")>>
    /\ parseResult = Ok("Zstd")

\* C9: when encodings() succeeds and no quality is within 0.01 of 1.0,
\* parse() returns the earliest directive of the highest quality, and Any
\* when no quality is above 0.0.
C9_HighestQualityEarliest ==
    (IsOk(encResult) /\ parseResult # NotCalled) =>
        LET list == encResult.val
            qs == Qualities(list)
        IN  NearOnes(qs) = {} =>
                parseResult = Ok(IF Positives(qs) = {} THEN "Any"
                                 ELSE list[Min(Tops(qs))].encoding)

\* "gzip;q=0.5, br;q=0.5": the tie goes to the earlier directive.
C9_Witness ==
    /\ IsOk(encResult)
    /\ encResult.val = <<[encoding |-> "Gzip", qval |-> Fin(500)],
                         [encoding |-> "Brotli", qval |-> Fin(500)]>>
    /\ parseResult = Ok("Gzip")

\* C10: parse() fails exactly when encodings() fails on the same headers,
\* and with the same error, also when the bad segment comes after a
\* directive of quality 1.0.
C10_ParseFailsWithEncodings ==
    BothCalled =>
        /\ IsErr(parseResult) <=> IsErr(encResult)
        /\ IsErr(parseResult) => parseResult = encResult

\* "gzip, gzip;q=abc": gzip would be selected, and parse() fails.
C10_Witness ==
    /\ headers = <<JoinSegments(<<S_gzip, WithQ(S_gzip, Q_abc)>>)>>
    /\ encResult = Err("InvalidEncoding")
    /\ parseResult = Err("InvalidEncoding")

=============================================================================
